---- MODULE Spec2Model ----
(***************************************************************************)
(* Model of src/visualize_hashtags.py: one run of main(input_path,         *)
(* sheet_name, outdir) over a worksheet, statement by statement.           *)
(*                                                                         *)
(* Text is a sequence of one-character strings, so that str.lower and      *)
(* str.strip are computed character by character.  A cell or a column      *)
(* name is a record [t, s, n]: t is its Python type, s its text, n its     *)
(* number (a float is kept in tenths: n = 25 is 2.5).                      *)
(***************************************************************************)
EXTENDS Integers, Sequences, FiniteSets, TLC

VARIABLES
    sheet,        \* what pd.read_excel returns for the input: [columns, rows]
    tieOrder,     \* how this build's default sort kind orders equal keys
    pc,           \* the statement of main that runs next
    outdirExists, \* whether the output directory exists
    created,      \* paths this run created on the filesystem, in order
    files,        \* artifact -> [state, data]
    reportText,   \* the parts written to REPORT.md, in order
    df,           \* the local DataFrame of main: [columns, rows]
    unsorted,     \* df as it was when sort_values was called
    hashtag_col,  \* locals of main set by find_columns
    count_col,
    figures,      \* number of open matplotlib figures
    f,            \* the report file handle: "none", "open", "closed"
    stdout,       \* lines printed
    error         \* the exception that ended the run

vars == <<sheet, tieOrder, pc, outdirExists, created, files, reportText, df,
          unsorted, hashtag_col, count_col, figures, f, stdout, error>>

(***************************************************************************)
(* Bounds of the model.                                                    *)
(***************************************************************************)
MaxRows == 2        \* rows of a sheet with arbitrary cells
MaxLongRows == 12   \* rows of the longest sheet

(***************************************************************************)
(* Values.                                                                 *)
(***************************************************************************)
Str(s) == [t |-> "str", s |-> s, n |-> 0]
Float(n) == [t |-> "float", s |-> <<>>, n |-> n]
IntV(n) == [t |-> "int", s |-> <<>>, n |-> n]
NaN == [t |-> "nan", s |-> <<>>, n |-> 0]
Inf == [t |-> "inf", s |-> <<>>, n |-> 0]
None == [t |-> "None", s |-> <<>>, n |-> 0]

HashtagName == Str(<<"H", "a", "s", "h", "t", "a", "g">>)
CountName == Str(<<"C", "o", "u", "n", "t">>)
HashtagKey == <<"h", "a", "s", "h", "t", "a", "g">>
CountKey == <<"c", "o", "u", "n", "t">>

CsvName == "top_hashtags_cleaned.csv"
BarName == "top_hashtags_bar.png"
PieName == "top_hashtags_pie.png"
ReportName == "REPORT.md"
Artifacts == {CsvName, BarName, PieName, ReportName}
ArtifactOrder == <<CsvName, BarName, PieName, ReportName>>

NoTable == [columns |-> <<>>, rows |-> <<>>]
NoFile == [state |-> "absent", data |-> NoTable]
NoError == [type |-> "None", found |-> <<>>, stage |-> "none"]

(***************************************************************************)
(* str.lower, character by character.                                      *)
(***************************************************************************)
UpperToLower ==
    [c \in {"A", "C", "G", "H", "K", "N", "O", "R", "S", "T", "U"} |->
        CASE c = "A" -> "a" [] c = "C" -> "c" [] c = "G" -> "g"
          [] c = "H" -> "h" [] c = "K" -> "k" [] c = "N" -> "n"
          [] c = "O" -> "o" [] c = "R" -> "r" [] c = "S" -> "s"
          [] c = "T" -> "t" [] c = "U" -> "u"]

LowerChar(c) == IF c \in DOMAIN UpperToLower THEN UpperToLower[c] ELSE c

Lower(s) == [i \in 1..Len(s) |-> LowerChar(s[i])]

(***************************************************************************)
(* str.strip: drops leading and trailing whitespace.                       *)
(***************************************************************************)
Whitespace == {" ", "\t", "\n"}

RECURSIVE LStrip(_)
LStrip(s) ==
    IF s = <<>> THEN <<>>
    ELSE IF s[1] \in Whitespace THEN LStrip(Tail(s)) ELSE s

RECURSIVE RStrip(_)
RStrip(s) ==
    IF s = <<>> THEN <<>>
    ELSE IF s[Len(s)] \in Whitespace THEN RStrip(SubSeq(s, 1, Len(s) - 1)) ELSE s

Strip(s) == RStrip(LStrip(s))

Digits == <<"0", "1", "2", "3", "4", "5", "6", "7", "8", "9">>

RECURSIVE NatText(_)
NatText(n) ==
    IF n < 10 THEN <<Digits[n + 1]>>
    ELSE NatText(n \div 10) \o <<Digits[(n % 10) + 1]>>

\* str() of a float kept in tenths: 20 is "2.0", -15 is "-1.5"
FloatText(n) ==
    LET a == IF n < 0 THEN -n ELSE n
    IN  (IF n < 0 THEN <<"-">> ELSE <<>>) \o NatText(a \div 10)
            \o <<".", Digits[(a % 10) + 1]>>

\* astype(str) of one cell: a missing cell becomes the text "nan"
AsTypeStr(v) ==
    IF v.t = "str" THEN v
    ELSE IF v.t = "nan" THEN Str(<<"n", "a", "n">>)
    ELSE IF v.t = "inf" THEN Str(<<"i", "n", "f">>)
    ELSE Str(FloatText(v.n))

(***************************************************************************)
(* Sequence helpers.                                                       *)
(***************************************************************************)
Range(s) == {s[i] : i \in 1..Len(s)}

Reverse(s) == [i \in 1..Len(s) |-> s[Len(s) + 1 - i]]

RECURSIVE SelectRows(_, _)
SelectRows(rows, keep) ==
    IF rows = <<>> THEN <<>>
    ELSE (IF keep[1] THEN <<rows[1]>> ELSE <<>>)
            \o SelectRows(Tail(rows), Tail(keep))

\* position of column `name` in `columns` (column names are unique)
ColIndex(columns, name) == CHOOSE i \in 1..Len(columns) : columns[i] = name

(***************************************************************************)
(* find_columns(df).                                                       *)
(***************************************************************************)
\* cols_lower = {c.lower(): c for c in df.columns}: a later column replaces
\* an earlier one with the same lowered name
ColsLower(columns) ==
    [k \in {Lower(columns[i].s) : i \in 1..Len(columns)} |->
        LET last == CHOOSE i \in 1..Len(columns) :
                        /\ Lower(columns[i].s) = k
                        /\ \A j \in 1..Len(columns) :
                              Lower(columns[j].s) = k => j <= i
        IN  columns[last]]

DictGet(d, k) == IF k \in DOMAIN d THEN d[k] ELSE None

\* Python truth value of a column name or None
Truthy(v) == v.t # "None" /\ ~(v.t = "str" /\ v.s = <<>>)

\* a lookup by the names as written, which find_columns must differ from
find_columns_case_sensitive(columns) ==
    LET names == Range(columns)
    IN  IF HashtagName \in names /\ CountName \in names
        THEN [raises |-> "None", hashtag_col |-> HashtagName, count_col |-> CountName]
        ELSE [raises |-> "ValueError", hashtag_col |-> None, count_col |-> None]

find_columns(columns) ==
    IF \E i \in 1..Len(columns) : columns[i].t # "str"
    THEN \* c.lower() on a name that is not text
         [raises |-> "AttributeError", hashtag_col |-> None, count_col |-> None]
    ELSE LET cols_lower == ColsLower(columns)
             h == DictGet(cols_lower, HashtagKey)
             c == DictGet(cols_lower, CountKey)
         IN  IF ~Truthy(h) \/ ~Truthy(c)
             THEN [raises |-> "ValueError", hashtag_col |-> None, count_col |-> None]
             ELSE [raises |-> "None", hashtag_col |-> h, count_col |-> c]

(***************************************************************************)
(* Lines 33-39: projection, cleaning, coercion, filtering.                 *)
(***************************************************************************)
\* df[[hashtag_col, count_col]].copy(); df.columns = ["Hashtag", "Count"]
Project(t, h, c) ==
    [columns |-> <<HashtagName, CountName>>,
     rows |-> [i \in 1..Len(t.rows) |->
                  <<t.rows[i][ColIndex(t.columns, h)],
                    t.rows[i][ColIndex(t.columns, c)]>>]]

\* df["Hashtag"].astype(str).str.strip()
CleanHashtag(t) ==
    LET hi == ColIndex(t.columns, HashtagName)
    IN  [t EXCEPT !.rows =
            [i \in 1..Len(t.rows) |->
                [t.rows[i] EXCEPT ![hi] = Str(Strip(AsTypeStr(t.rows[i][hi]).s))]]]

DigitValue(ch) == (CHOOSE d \in 1..Len(Digits) : Digits[d] = ch) - 1

RECURSIVE DigitsValue(_)
DigitsValue(s) ==
    IF s = <<>> THEN 0
    ELSE 10 * DigitsValue(SubSeq(s, 1, Len(s) - 1)) + DigitValue(s[Len(s)])

\* pd.to_numeric(..., errors="coerce") of one cell
ToNumeric(v) ==
    IF v.t = "float" \/ v.t = "inf" \/ v.t = "nan" THEN v
    ELSE IF v.t = "str" /\ v.s # <<>> /\ \A i \in 1..Len(v.s) : v.s[i] \in Range(Digits)
         THEN Float(10 * DigitsValue(v.s))
         ELSE NaN

\* .fillna(0) of one cell
FillNa(v) == IF v.t = "nan" THEN Float(0) ELSE v

\* the integer a float in tenths casts to: the fraction is cut off
Trunc(n) == IF n >= 0 THEN n \div 10 ELSE -((-n) \div 10)

\* .astype(int) of one cell that is finite
AsTypeInt(v) == IntV(Trunc(v.n))

\* a coercion that drops the rows to_numeric could not parse (dropna for fillna)
CoerceCountDropNa(t) ==
    LET ci == ColIndex(t.columns, CountName)
        num == [i \in 1..Len(t.rows) |-> ToNumeric(t.rows[i][ci])]
        kept == SelectRows(t.rows, [i \in 1..Len(t.rows) |-> num[i].t # "nan"])
    IN  [raises |-> "None",
         table |-> [t EXCEPT !.rows =
                      [i \in 1..Len(kept) |->
                          [kept[i] EXCEPT ![ci] = AsTypeInt(FillNa(ToNumeric(kept[i][ci])))]]]]

\* pd.to_numeric(df["Count"], errors="coerce").fillna(0).astype(int)
CoerceCount(t) ==
    LET ci == ColIndex(t.columns, CountName)
        filled == [i \in 1..Len(t.rows) |-> FillNa(ToNumeric(t.rows[i][ci]))]
    IN  IF \E i \in 1..Len(t.rows) : filled[i].t = "inf"
        THEN \* astype(int) refuses a value that is not finite
             [raises |-> "IntCastingNaNError", table |-> t]
        ELSE [raises |-> "None",
              table |-> [t EXCEPT !.rows =
                           [i \in 1..Len(t.rows) |->
                               [t.rows[i] EXCEPT ![ci] = AsTypeInt(filled[i])]]]]

\* a filter that keeps every row
DropEmptyKeepsAll(t) == t

\* df[df["Hashtag"].str.len() > 0]
DropEmpty(t) ==
    LET hi == ColIndex(t.columns, HashtagName)
    IN  [t EXCEPT !.rows =
            SelectRows(t.rows, [i \in 1..Len(t.rows) |-> Len(t.rows[i][hi].s) > 0])]

(***************************************************************************)
(* Line 42: df.sort_values("Count", ascending=False).reset_index(drop=True)*)
(* No kind is passed, so the sort is the default one, which documents no   *)
(* order for equal keys; tieOrder is the order a build gives them.         *)
(***************************************************************************)
TieOrders == {"kept", "reversed"}

\* insert row r into rows sorted by column ci descending, after all rows
\* whose key is >= its own
InsertDesc(sorted, r, ci) ==
    LET p == Cardinality({i \in 1..Len(sorted) : sorted[i][ci].n >= r[ci].n})
    IN  SubSeq(sorted, 1, p) \o <<r>> \o SubSeq(sorted, p + 1, Len(sorted))

RECURSIVE SortDesc(_, _)
SortDesc(rows, ci) ==
    IF rows = <<>> THEN <<>>
    ELSE InsertDesc(SortDesc(SubSeq(rows, 1, Len(rows) - 1), ci), rows[Len(rows)], ci)

\* the sort without ascending=False
SortValuesAscending(t, ties) ==
    [t EXCEPT !.rows = Reverse(SortDesc(t.rows, ColIndex(t.columns, CountName)))]

SortValues(t, ties) ==
    LET ci == ColIndex(t.columns, CountName)
    IN  [t EXCEPT !.rows = IF ties = "kept" THEN SortDesc(t.rows, ci)
                           ELSE SortDesc(Reverse(t.rows), ci)]

(***************************************************************************)
(* Line 72: df.head(10).                                                   *)
(***************************************************************************)
PreviewRows == 10

\* a preview one row short
head_short(t, n) ==
    [t EXCEPT !.rows = SubSeq(t.rows, 1, IF Len(t.rows) < n - 1 THEN Len(t.rows) ELSE n - 1)]

head(t, n) ==
    [t EXCEPT !.rows = SubSeq(t.rows, 1, IF Len(t.rows) < n THEN Len(t.rows) ELSE n)]

\* the whole of lines 32-42 as a function of the sheet, for a sheet that
\* find_columns accepts and whose counts are all finite
Normalized(t, ties) ==
    LET fc == find_columns(t.columns)
    IN  SortValues(DropEmpty(CoerceCount(CleanHashtag(
            Project(t, fc.hashtag_col, fc.count_col))).table), ties)

(***************************************************************************)
(* The worksheets a run is given.                                          *)
(***************************************************************************)
LabelValues ==
    {Str(<<" ", "#", "b", " ">>), Str(<<" ", "\t">>), NaN}

CountValues ==
    {Float(20), Float(-15), Str(<<"7">>), Str(<<"x">>), NaN, Inf}

Filler == Str(<<"-">>)

UpperHashtag == Str(<<"H", "A", "S", "H", "T", "A", "G">>)
UpperCount == Str(<<"C", "O", "U", "N", "T">>)
LowerHashtag == Str(HashtagKey)
LowerCount == Str(CountKey)
RankName == Str(<<"R", "a", "n", "k">>)
SevenName == [t |-> "int", s |-> <<"7">>, n |-> 7]

ColumnNames ==
    {HashtagName, UpperHashtag, LowerHashtag, CountName, UpperCount, LowerCount,
     RankName, SevenName}

Layouts ==
    {<<UpperCount, RankName, LowerHashtag>>,
     <<HashtagName>>,
     <<UpperCount, RankName>>,
     <<>>,
     <<SevenName, CountName>>,
     <<HashtagName, CountName, SevenName>>}

DupLayouts == {<<HashtagName, UpperHashtag, CountName>>}

\* the values a cell of column `name` is drawn from
CellDomain(name) ==
    IF name.t = "str" /\ Lower(name.s) = HashtagKey THEN LabelValues
    ELSE IF name.t = "str" /\ Lower(name.s) = CountKey THEN CountValues
    ELSE {Filler}

RECURSIVE RowsOf(_)
RowsOf(columns) ==
    IF columns = <<>> THEN {<<>>}
    ELSE {<<c>> \o r : c \in CellDomain(columns[1]), r \in RowsOf(Tail(columns))}

RECURSIVE SeqsUpTo(_, _)
SeqsUpTo(S, n) ==
    IF n = 0 THEN {<<>>}
    ELSE LET shorter == SeqsUpTo(S, n - 1)
         IN  shorter \cup {Append(q, x) : q \in {r \in shorter : Len(r) = n - 1}, x \in S}

SheetsOf(layouts, maxRows) ==
    UNION {{[columns |-> c, rows |-> r] : r \in SeqsUpTo(RowsOf(c), maxRows)} :
              c \in layouts}

\* a sheet of n rows with distinct labels whose counts are not in order
LongSheet(n) ==
    [columns |-> <<HashtagName, CountName>>,
     rows |-> [i \in 1..n |->
                 <<Str(<<"#", Digits[(i \div 10) + 1], Digits[(i % 10) + 1]>>),
                   Float(10 * (i % 3))>>]]

\* one-row sheets in which two columns lower to "hashtag"
DupSheets ==
    UNION {{[columns |-> c, rows |-> <<r>>] : r \in RowsOf(c)} : c \in DupLayouts}

\* a sheet whose labels are numbers
NumberLabelSheet ==
    [columns |-> <<HashtagName, CountName>>,
     rows |-> <<<<Float(20), Float(20)>>, <<Float(-15), Float(70)>>>>]

Sheets ==
    SheetsOf(Layouts, MaxRows) \cup DupSheets
        \cup {LongSheet(n) : n \in 0..MaxLongRows} \cup {NumberLabelSheet}

(***************************************************************************)
(* The run.                                                                *)
(***************************************************************************)
ReportParts ==
    <<"# Trending Hashtags - Auto Report", "## Top 10 (preview)", "preview table",
      "## Charts", "![Bar Chart](./top_hashtags_bar.png)",
      "![Pie Chart](./top_hashtags_pie.png)">>

DoneLines == <<"Done:", CsvName, BarName, PieName, ReportName>>

Init ==
    /\ sheet \in Sheets
    /\ tieOrder \in TieOrders
    \* the output directory is there beforehand only in runs over short sheets
    /\ outdirExists \in (IF Len(sheet.rows) <= 1 THEN BOOLEAN ELSE {FALSE})
    /\ pc = "makedirs"
    /\ created = <<>>
    /\ files = [a \in Artifacts |-> NoFile]
    /\ reportText = <<>>
    /\ df = NoTable
    /\ unsorted = NoTable
    /\ hashtag_col = None
    /\ count_col = None
    /\ figures = 0
    /\ f = "none"
    /\ stdout = <<>>
    /\ error = NoError

\* an exception leaves main: nothing catches it
Raise(type, found) ==
    /\ pc' = "failed"
    /\ error' = [type |-> type, found |-> found, stage |-> pc]

\* line 26: os.makedirs(outdir, exist_ok=True)
MakeDirs ==
    /\ pc = "makedirs"
    /\ outdirExists' = TRUE
    /\ created' = IF outdirExists THEN created ELSE Append(created, "outdir")
    /\ pc' = "read_excel"
    /\ UNCHANGED <<sheet, tieOrder, files, reportText, df, unsorted, hashtag_col,
                   count_col, figures, f, stdout, error>>

MakeDirsFails ==
    /\ pc = "makedirs"
    /\ Raise("OSError", <<>>)
    /\ UNCHANGED <<sheet, tieOrder, outdirExists, created, files, reportText, df,
                   unsorted, hashtag_col, count_col, figures, f, stdout>>

\* line 29: df = pd.read_excel(input_path, sheet_name=...)
ReadExcel ==
    /\ pc = "read_excel"
    /\ df' = sheet
    /\ pc' = "find_columns"
    /\ UNCHANGED <<sheet, tieOrder, outdirExists, created, files, reportText,
                   unsorted, hashtag_col, count_col, figures, f, stdout, error>>

ReadExcelFails ==
    /\ pc = "read_excel"
    /\ Raise("OSError", <<>>)
    /\ UNCHANGED <<sheet, tieOrder, outdirExists, created, files, reportText, df,
                   unsorted, hashtag_col, count_col, figures, f, stdout>>

\* line 32: hashtag_col, count_col = find_columns(df)
FindColumns ==
    /\ pc = "find_columns"
    /\ LET r == find_columns(df.columns)
       IN  IF r.raises = "None"
           THEN /\ hashtag_col' = r.hashtag_col
                /\ count_col' = r.count_col
                /\ pc' = "select"
                /\ UNCHANGED error
           ELSE /\ Raise(r.raises, IF r.raises = "ValueError" THEN df.columns ELSE <<>>)
                /\ UNCHANGED <<hashtag_col, count_col>>
    /\ UNCHANGED <<sheet, tieOrder, outdirExists, created, files, reportText, df,
                   unsorted, figures, f, stdout>>

\* lines 33-34
SelectColumns ==
    /\ pc = "select"
    /\ df' = Project(df, hashtag_col, count_col)
    /\ pc' = "strip"
    /\ UNCHANGED <<sheet, tieOrder, outdirExists, created, files, reportText,
                   unsorted, hashtag_col, count_col, figures, f, stdout, error>>

\* line 35
StripHashtag ==
    /\ pc = "strip"
    /\ df' = CleanHashtag(df)
    /\ pc' = "to_numeric"
    /\ UNCHANGED <<sheet, tieOrder, outdirExists, created, files, reportText,
                   unsorted, hashtag_col, count_col, figures, f, stdout, error>>

\* line 36
CountToInt ==
    /\ pc = "to_numeric"
    /\ LET r == CoerceCount(df)
       IN  IF r.raises = "None"
           THEN /\ df' = r.table
                /\ pc' = "drop_empty"
                /\ UNCHANGED error
           ELSE /\ Raise(r.raises, <<>>)
                /\ UNCHANGED df
    /\ UNCHANGED <<sheet, tieOrder, outdirExists, created, files, reportText,
                   unsorted, hashtag_col, count_col, figures, f, stdout>>

\* line 39
DropEmptyHashtags ==
    /\ pc = "drop_empty"
    /\ df' = DropEmpty(df)
    /\ pc' = "sort_values"
    /\ UNCHANGED <<sheet, tieOrder, outdirExists, created, files, reportText,
                   unsorted, hashtag_col, count_col, figures, f, stdout, error>>

\* line 42
SortByCount ==
    /\ pc = "sort_values"
    /\ unsorted' = df
    /\ df' = SortValues(df, tieOrder)
    /\ pc' = "to_csv"
    /\ UNCHANGED <<sheet, tieOrder, outdirExists, created, files, reportText,
                   hashtag_col, count_col, figures, f, stdout, error>>

\* a file written whole, and a write that raised before or after the file
\* was created
Written(name, data) ==
    /\ files' = [files EXCEPT ![name] = [state |-> "complete", data |-> data]]
    /\ created' = Append(created, name)

WriteBroken(name, state) ==
    /\ files' = [files EXCEPT ![name] = [state |-> state, data |-> NoTable]]
    /\ created' = IF state = "absent" THEN created ELSE Append(created, name)

\* lines 45-46: df.to_csv(cleaned_csv, index=False)
\* a to_csv whose error is caught and the run goes on
SaveCsvErrorSwallowed ==
    /\ pc = "to_csv"
    /\ WriteBroken(CsvName, "absent")
    /\ pc' = "bar_figure"
    /\ UNCHANGED <<sheet, tieOrder, outdirExists, reportText, df, unsorted,
                   hashtag_col, count_col, figures, f, stdout, error>>

SaveCsv ==
    /\ pc = "to_csv"
    /\ Written(CsvName, df)
    /\ pc' = "bar_figure"
    /\ UNCHANGED <<sheet, tieOrder, outdirExists, reportText, df, unsorted,
                   hashtag_col, count_col, figures, f, stdout, error>>

SaveCsvFails ==
    /\ pc = "to_csv"
    /\ \E state \in {"absent", "partial"} : WriteBroken(CsvName, state)
    /\ Raise("OSError", <<>>)
    /\ UNCHANGED <<sheet, tieOrder, outdirExists, reportText, df, unsorted,
                   hashtag_col, count_col, figures, f, stdout>>

\* line 49: plt.figure()
BarFigure ==
    /\ pc = "bar_figure"
    /\ figures' = figures + 1
    /\ pc' = "bar_savefig"
    /\ UNCHANGED <<sheet, tieOrder, outdirExists, created, files, reportText, df,
                   unsorted, hashtag_col, count_col, f, stdout, error>>

\* lines 50-55: plt.bar ... plt.savefig(bar_path, dpi=200)
BarSave ==
    /\ pc = "bar_savefig"
    /\ Written(BarName, df)
    /\ pc' = "bar_close"
    /\ UNCHANGED <<sheet, tieOrder, outdirExists, reportText, df, unsorted,
                   hashtag_col, count_col, figures, f, stdout, error>>

\* one of lines 50-55 raises: line 56 is not reached
BarFails ==
    /\ pc = "bar_savefig"
    /\ \E state \in {"absent", "partial"} : WriteBroken(BarName, state)
    /\ Raise("OSError", <<>>)
    /\ UNCHANGED <<sheet, tieOrder, outdirExists, reportText, df, unsorted,
                   hashtag_col, count_col, figures, f, stdout>>

\* line 56: plt.close()
BarClose ==
    /\ pc = "bar_close"
    /\ figures' = figures - 1
    /\ pc' = "pie_figure"
    /\ UNCHANGED <<sheet, tieOrder, outdirExists, created, files, reportText, df,
                   unsorted, hashtag_col, count_col, f, stdout, error>>

\* line 59: plt.figure()
PieFigure ==
    /\ pc = "pie_figure"
    /\ figures' = figures + 1
    /\ pc' = "pie_savefig"
    /\ UNCHANGED <<sheet, tieOrder, outdirExists, created, files, reportText, df,
                   unsorted, hashtag_col, count_col, f, stdout, error>>

\* plt.pie refuses a negative wedge size
PieAccepts(t) ==
    \A i \in 1..Len(t.rows) : t.rows[i][ColIndex(t.columns, CountName)].n >= 0

\* lines 60-64: plt.pie ... plt.savefig(pie_path, dpi=200)
PieSave ==
    /\ pc = "pie_savefig"
    /\ PieAccepts(df)
    /\ Written(PieName, df)
    /\ pc' = "pie_close"
    /\ UNCHANGED <<sheet, tieOrder, outdirExists, reportText, df, unsorted,
                   hashtag_col, count_col, figures, f, stdout, error>>

\* one of lines 60-64 raises: line 65 is not reached
PieFails ==
    /\ pc = "pie_savefig"
    /\ IF PieAccepts(df)
       THEN /\ \E state \in {"absent", "partial"} : WriteBroken(PieName, state)
            /\ Raise("OSError", <<>>)
       ELSE /\ WriteBroken(PieName, "absent")
            /\ Raise("ValueError", <<>>)
    /\ UNCHANGED <<sheet, tieOrder, outdirExists, reportText, df, unsorted,
                   hashtag_col, count_col, figures, f, stdout>>

\* line 65: plt.close()
PieClose ==
    /\ pc = "pie_close"
    /\ figures' = figures - 1
    /\ pc' = "open_report"
    /\ UNCHANGED <<sheet, tieOrder, outdirExists, created, files, reportText, df,
                   unsorted, hashtag_col, count_col, f, stdout, error>>

\* line 69: with open(md_path, "w", encoding="utf-8") as f
OpenReport ==
    /\ pc = "open_report"
    /\ f' = "open"
    /\ WriteBroken(ReportName, "partial")
    /\ pc' = "write_report"
    /\ UNCHANGED <<sheet, tieOrder, outdirExists, reportText, df, unsorted,
                   hashtag_col, count_col, figures, stdout, error>>

OpenReportFails ==
    /\ pc = "open_report"
    /\ Raise("OSError", <<>>)
    /\ UNCHANGED <<sheet, tieOrder, outdirExists, created, files, reportText, df,
                   unsorted, hashtag_col, count_col, figures, f, stdout>>

\* lines 70-75 and the end of the with block, which closes f
WriteReport ==
    /\ pc = "write_report"
    /\ reportText' = ReportParts
    /\ files' = [files EXCEPT ![ReportName] =
                    [state |-> "complete", data |-> head(df, PreviewRows)]]
    /\ f' = "closed"
    /\ pc' = "print"
    /\ UNCHANGED <<sheet, tieOrder, outdirExists, created, df, unsorted,
                   hashtag_col, count_col, figures, stdout, error>>

\* a write or to_markdown raises after k parts: the with block closes f
WriteReportFails ==
    /\ pc = "write_report"
    /\ \E k \in 0..(Len(ReportParts) - 1) : reportText' = SubSeq(ReportParts, 1, k)
    /\ f' = "closed"
    /\ Raise("OSError", <<>>)
    /\ UNCHANGED <<sheet, tieOrder, outdirExists, created, files, df, unsorted,
                   hashtag_col, count_col, figures, stdout>>

\* lines 77-81
PrintDone ==
    /\ pc = "print"
    /\ stdout' = DoneLines
    /\ pc' = "done"
    /\ UNCHANGED <<sheet, tieOrder, outdirExists, created, files, reportText, df,
                   unsorted, hashtag_col, count_col, figures, f, error>>

Next ==
    \/ MakeDirs \/ MakeDirsFails
    \/ ReadExcel \/ ReadExcelFails
    \/ FindColumns
    \/ SelectColumns
    \/ StripHashtag
    \/ CountToInt
    \/ DropEmptyHashtags
    \/ SortByCount
    \/ SaveCsv \/ SaveCsvFails
    \/ BarFigure \/ BarSave \/ BarFails \/ BarClose
    \/ PieFigure \/ PieSave \/ PieFails \/ PieClose
    \/ OpenReport \/ OpenReportFails
    \/ WriteReport \/ WriteReportFails
    \/ PrintDone

Spec == Init /\ [][Next]_vars

(***************************************************************************)
(* Vocabulary of the properties, stated without the operators above.       *)
(***************************************************************************)
StageOrder ==
    <<"makedirs", "read_excel", "find_columns", "select", "strip", "to_numeric",
      "drop_empty", "sort_values", "to_csv", "bar_figure", "bar_savefig",
      "bar_close", "pie_figure", "pie_savefig", "pie_close", "open_report",
      "write_report", "print", "done">>

StageIndex(stage) == CHOOSE i \in 1..Len(StageOrder) : StageOrder[i] = stage

\* the statement the run is at, or raised in
Position == IF pc = "failed" THEN error.stage ELSE pc

\* the statement `stage` has run and returned
Passed(stage) == StageIndex(Position) > StageIndex(stage)

RaisedIn(stage) == pc = "failed" /\ error.stage = stage

\* lines 32-42 have run: df is the normalized table
NormalizationDone == Passed("sort_values")

Terminal == pc \in {"done", "failed"}

CountOf(row) == row[2].n
LabelOf(row) == row[1].s

IsBlank(s) == \A i \in 1..Len(s) : s[i] \in Whitespace

\* s without its leading and trailing whitespace, for s not blank
Trimmed(s) ==
    LET solid == {i \in 1..Len(s) : s[i] \notin Whitespace}
        first == CHOOSE i \in solid : \A j \in solid : i <= j
        last == CHOOSE i \in solid : \A j \in solid : j <= i
    IN  SubSeq(s, first, last)

\* the text of a source label cell
TextOf(v) ==
    IF v.t = "nan" THEN <<"n", "a", "n">>
    ELSE IF v = Float(20) THEN <<"2", ".", "0">>
    ELSE IF v = Float(-15) THEN <<"-", "1", ".", "5">>
    ELSE v.s

\* a source count cell that is no number: missing, or text that is not digits
FailsNumericParsing(v) ==
    \/ v.t = "nan"
    \/ v.t = "str" /\ (v.s = <<>> \/ \E i \in 1..Len(v.s) : v.s[i] \notin Range(Digits))

\* the cells of the sheet's resolved label and count columns in source row i
SourceLabel(i) == sheet.rows[i][ColIndex(sheet.columns, hashtag_col)]
SourceCount(i) == sheet.rows[i][ColIndex(sheet.columns, count_col)]

CaseClasses ==
    {{HashtagName, UpperHashtag, LowerHashtag}, {CountName, UpperCount, LowerCount},
     {RankName}, {SevenName}}

HasColumn(columns, class) == \E i \in 1..Len(columns) : columns[i] \in class

LacksRequiredColumn(columns) ==
    \/ ~HasColumn(columns, {HashtagName, UpperHashtag, LowerHashtag})
    \/ ~HasColumn(columns, {CountName, UpperCount, LowerCount})

CaseClassOf(name) == CHOOSE class \in CaseClasses : name \in class

RECURSIVE CaseVariants(_)
CaseVariants(columns) ==
    IF columns = <<>> THEN {<<>>}
    ELSE {<<c>> \o rest : c \in CaseClassOf(columns[1]),
                          rest \in CaseVariants(Tail(columns))}

\* the headers that differ from `columns` in letter case only
Recasings(columns) ==
    {c2 \in CaseVariants(columns) : \A i, j \in 1..Len(c2) : i # j => c2[i] # c2[j]}

IsSortedDescending(rows) ==
    \A i \in 1..(Len(rows) - 1) : CountOf(rows[i]) >= CountOf(rows[i + 1])

\* the rows of `rows` whose count is c, in order
WithCount(rows, c) ==
    SelectRows(rows, [i \in 1..Len(rows) |-> CountOf(rows[i]) = c])

(***************************************************************************)
(* C1.  A sheet that lacks the hashtag or the count column makes the run   *)
(* fail in find_columns with the schema error (ValueError) that lists the  *)
(* sheet's columns, with no artifact written and nothing created on the    *)
(* filesystem.                                                             *)
(***************************************************************************)
C1_SchemaErrorLeavesNothing ==
    (LacksRequiredColumn(sheet.columns) /\ (Passed("find_columns") \/ RaisedIn("find_columns")))
        => /\ RaisedIn("find_columns")
           /\ error.type = "ValueError"
           /\ error.found = sheet.columns
           /\ \A a \in Artifacts : files[a].state = "absent"
           /\ created = <<>>

(***************************************************************************)
(* C2.  The sort of line 42 is stable: rows of the filtered table with     *)
(* equal Count are in the same relative order in the normalized table.     *)
(***************************************************************************)
C2_SortIsStable ==
    NormalizationDone
        => \A c \in {CountOf(unsorted.rows[i]) : i \in 1..Len(unsorted.rows)} :
              WithCount(df.rows, c) = WithCount(unsorted.rows, c)

(***************************************************************************)
(* C3.  Every Count of the normalized table, and of every artifact made    *)
(* from it, is a non-negative integer.                                     *)
(***************************************************************************)
C3_CountsNonNegative ==
    NormalizationDone
        => /\ \A i \in 1..Len(df.rows) : df.rows[i][2].t = "int" /\ CountOf(df.rows[i]) >= 0
           /\ \A a \in Artifacts : \A i \in 1..Len(files[a].data.rows) :
                 CountOf(files[a].data.rows[i]) >= 0

(***************************************************************************)
(* C4.  The normalized table is sorted by Count descending, and the CSV    *)
(* export, the bar chart, the pie chart and the report's preview are made  *)
(* from the table in that order.                                           *)
(***************************************************************************)
C4_SortedDescending ==
    NormalizationDone
        => /\ IsSortedDescending(df.rows)
           /\ \A a \in {CsvName, BarName, PieName} :
                 files[a].state = "complete" => files[a].data = df
           /\ files[ReportName].state = "complete"
                 => /\ IsSortedDescending(files[ReportName].data.rows)
                    /\ \A i \in 1..Len(files[ReportName].data.rows) :
                          files[ReportName].data.rows[i] = df.rows[i]

C4_Witness ==
    /\ pc = "done"
    /\ Len(df.rows) >= 3
    /\ df # unsorted
    /\ \E i \in 1..(Len(df.rows) - 1) : CountOf(df.rows[i]) > CountOf(df.rows[i + 1])

(***************************************************************************)
(* C5.  A row whose source count fails numeric parsing gets Count 0:       *)
(* line 36 keeps every row in its place, raises only for a count that is   *)
(* not finite and never for one that fails parsing, and the row is in the  *)
(* normalized table with Count 0 unless its label is blank.                *)
(***************************************************************************)
C5_UnparsableCountIsZero ==
    /\ pc = "drop_empty"
          => /\ Len(df.rows) = Len(sheet.rows)
             /\ \A i \in 1..Len(sheet.rows) :
                   FailsNumericParsing(SourceCount(i)) => df.rows[i][2] = IntV(0)
    /\ RaisedIn("to_numeric")
          => \E i \in 1..Len(sheet.rows) : SourceCount(i).t = "inf"
    /\ (Passed("find_columns") /\ \A i \in 1..Len(sheet.rows) : SourceCount(i).t # "inf")
          => ~RaisedIn("to_numeric")
    /\ NormalizationDone
          => \A i \in 1..Len(sheet.rows) :
                (FailsNumericParsing(SourceCount(i)) /\ ~IsBlank(TextOf(SourceLabel(i))))
                    => \E k \in 1..Len(df.rows) :
                          df.rows[k] = <<Str(Trimmed(TextOf(SourceLabel(i)))), IntV(0)>>

C5_Witness ==
    /\ pc = "done"
    /\ Len(sheet.rows) = 2
    /\ SourceCount(1) = Str(<<"x">>)
    /\ SourceCount(2) = NaN
    /\ Len(df.rows) = 2
    /\ \A k \in 1..2 : CountOf(df.rows[k]) = 0

(***************************************************************************)
(* C6.  No row of the normalized table has a label that is empty or has    *)
(* surrounding whitespace; the rows removed by line 39 are exactly the     *)
(* source rows whose label text is blank, and the others are kept, in      *)
(* order, with their trimmed label.                                        *)
(***************************************************************************)
C6_NoEmptyLabel ==
    NormalizationDone
        => /\ \A i \in 1..Len(df.rows) :
                 /\ LabelOf(df.rows[i]) # <<>>
                 /\ LabelOf(df.rows[i])[1] \notin Whitespace
                 /\ LabelOf(df.rows[i])[Len(LabelOf(df.rows[i]))] \notin Whitespace
           /\ LET kept == SelectRows(sheet.rows,
                              [i \in 1..Len(sheet.rows) |-> ~IsBlank(TextOf(SourceLabel(i)))])
                  hi == ColIndex(sheet.columns, hashtag_col)
              IN  /\ Len(unsorted.rows) = Len(kept)
                  /\ \A k \in 1..Len(kept) :
                        LabelOf(unsorted.rows[k]) = Trimmed(TextOf(kept[k][hi]))
           /\ Len(df.rows) = Len(unsorted.rows)

C6_Witness ==
    /\ pc = "done"
    /\ Len(sheet.rows) = 2
    /\ SourceLabel(1) = Str(<<" ", "\t">>)
    /\ SourceLabel(2) = Str(<<" ", "#", "b", " ">>)
    /\ Len(df.rows) = 1
    /\ LabelOf(df.rows[1]) = <<"#", "b">>

(***************************************************************************)
(* C7.  Column resolution ignores letter case: a sheet with the same rows  *)
(* whose column names differ only in case is accepted or refused alike     *)
(* and gives the identical normalized table (df when line 42 has run),     *)
(* whose columns are exactly Hashtag and Count.                            *)
(***************************************************************************)
C7_CaseInsensitiveColumns ==
    /\ NormalizationDone
          => /\ df.columns = <<HashtagName, CountName>>
             /\ \A i \in 1..Len(df.rows) : Len(df.rows[i]) = 2
    /\ pc = "to_csv"
          => \A c2 \in Recasings(sheet.columns) :
                /\ find_columns(c2).raises = "None"
                /\ Normalized([columns |-> c2, rows |-> sheet.rows], tieOrder) = df
    /\ RaisedIn("find_columns")
          => \A c2 \in Recasings(sheet.columns) : find_columns(c2).raises = error.type

C7_Witness ==
    /\ pc = "done"
    /\ sheet.columns = <<UpperCount, RankName, LowerHashtag>>
    /\ <<CountName, RankName, HashtagName>> \in Recasings(sheet.columns)
    /\ Len(df.rows) = 2
    /\ df.columns = <<HashtagName, CountName>>

(***************************************************************************)
(* C8.  The report's preview is the first min(10, n) rows of the           *)
(* normalized table of n rows, in table order, under the columns Hashtag   *)
(* and Count; the headings and both chart references are written whatever  *)
(* n is.                                                                   *)
(***************************************************************************)
C8_PreviewIsFirstTen ==
    files[ReportName].state = "complete"
        => LET preview == files[ReportName].data
               n == Len(df.rows)
           IN  /\ preview.columns = <<HashtagName, CountName>>
               /\ Len(preview.rows) = (IF n < 10 THEN n ELSE 10)
               /\ \A i \in 1..Len(preview.rows) : preview.rows[i] = df.rows[i]
               /\ reportText = ReportParts

C8_Witness ==
    /\ pc = "done"
    /\ Len(df.rows) > 10
    /\ Len(files[ReportName].data.rows) = 10
    /\ files[ReportName].data.rows[10] = df.rows[10]

(***************************************************************************)
(* C9.  When the run has ended, by returning or by an exception, no        *)
(* figure it opened is still open and the report file handle is closed.    *)
(***************************************************************************)
C9_ResourcesReleased ==
    Terminal => figures = 0 /\ f # "open"

(***************************************************************************)
(* C10.  The stages run in one fixed order, a stage that raises ends the   *)
(* run there, the artifacts the run has created are a prefix of (CSV, bar  *)
(* PNG, pie PNG, REPORT.md), and a run that returns has written all four.  *)
(***************************************************************************)
ArtifactsCreated == SelectSeq(created, LAMBDA path : path \in Artifacts)

C10_InOrder ==
    /\ ArtifactsCreated = SubSeq(ArtifactOrder, 1, Len(ArtifactsCreated))
    /\ \A a \in Artifacts : files[a].state # "absent" <=> a \in Range(created)
    /\ pc = "done"
          => /\ ArtifactsCreated = ArtifactOrder
             /\ \A a \in Artifacts : files[a].state = "complete"
             /\ error = NoError
    /\ pc = "failed"
          => /\ error # NoError
             /\ stdout = <<>>
             /\ \A k \in 1..Len(ArtifactOrder) :
                   files[ArtifactOrder[k]].state = "partial"
                       => \A m \in (k + 1)..Len(ArtifactOrder) :
                             files[ArtifactOrder[m]].state = "absent"

C10_StepsInOrder ==
    [][/\ pc \notin {"done", "failed"}
       /\ \/ pc' = StageOrder[StageIndex(pc) + 1] /\ error' = NoError
          \/ pc' = "failed" /\ error'.stage = pc]_vars

C10_FixedStageOrder == []C10_InOrder /\ C10_StepsInOrder

C10_Witness ==
    /\ RaisedIn("pie_savefig")
    /\ files[CsvName].state = "complete"
    /\ files[BarName].state = "complete"
    /\ files[PieName].state = "partial"
    /\ files[ReportName].state = "absent"

====
